---------------------------- MODULE Spec2Model ----------------------------
(***************************************************************************)
(* A model of the route-guide gRPC service of src/server/server.go.        *)
(*                                                                         *)
(* Spec          the RouteChat handlers (bidirectional streaming) running  *)
(*               concurrently over the shared note registry routeNotes,    *)
(*               which the mutex mu protects.                              *)
(* SpecLive      Spec under the fairness of the scheduler and the mutex.   *)
(* SpecFeatures  the GetFeature and ListFeatures handlers over the         *)
(*               read-only feature store knownFeatures.                    *)
(* SpecRecord    the RecordRoute handler (client streaming) with a clock.  *)
(* SpecLongRoute RecordRoute fed a long route between two antipodes.       *)
(* SpecSkewRoute RecordRoute fed two antipodes whose distance is no number.*)
(* SpecGeometry  the bounding-box test inRange on its own.                 *)
(***************************************************************************)
EXTENDS Integers, Sequences, FiniteSets, TLC

(***************************************************************************)
(* Bounds of the model.                                                    *)
(***************************************************************************)
\* Number of concurrent RouteChat calls.
NumCalls == 2
\* Total number of notes the calls receive between them.
MaxNotes == 3
\* Largest number of features loaded into the store.
MaxFeatures == 2
\* Largest number of points a RecordRoute call receives (SpecRecord).
MaxPoints == 3
\* The clock stops at MaxTime ticks; a second is TicksPerSecond ticks.
MaxTime == 4
TicksPerSecond == 2
\* Number of points of the long route (SpecLongRoute).
LongRoute == 109

Calls == 1..NumCalls

(***************************************************************************)
(* Data: rp.Point, rp.RouteNote, rp.Feature, rp.Rectangle.                 *)
(***************************************************************************)
\* Locations the chat clients leave notes at.  "1 11" and "11 1" differ
\* only by where the separator of the key stands.
NotePoints ==
    { [Latitude |-> 1,  Longitude |-> 11],
      [Latitude |-> 11, Longitude |-> 1] }

\* The message of the j-th note a client sends on call c.  The handler never
\* reads a message; every note received is an object of its own (RouteChat
\* stores the pointer), which a message of its own stands for.
MessageOf(c, j) == ToString(c) \o "." \o ToString(j)

\* Coordinates of the features, of the points asked for and of the corners
\* of the rectangles: three latitudes, so that a point can lie strictly
\* inside, on the edge of, or outside a range.
Latitudes == {-1, 0, 1}
Longitudes == {0, 1}

Points == [Latitude : Latitudes, Longitude : Longitudes]

\* A feature may be loaded with an empty name.
Names == {"", "A"}

Features == [Name : Names, Location : Points]

\* The corners of a rectangle come in any order.
Rectangles == [Lo : Points, Hi : Points]

VARIABLES
    knownFeatures,  \* s.knownFeatures: the loaded features, in load order
    routeNotes,     \* s.routeNotes: map from key to the notes left there
    mu,             \* s.mu: 0 when unlocked, else the call that locked it
    pc,             \* per RouteChat call: where the handler stands
    inbound,        \* per call: the notes stream.Recv has delivered so far
    outbound,       \* per call: the notes stream.Send has accepted so far
    key,            \* per call: the local key of the current iteration
    tmp,            \* per call: the slice append(...) built, before it is stored
    rn,             \* per call: the local snapshot rn of the current iteration
    idx,            \* per call: position of the send loop in rn
    ret,            \* per call: "" while running, else what the handler returned
    appends,        \* history: the appends to routeNotes, in the order they happened
    snapshots,      \* history: the snapshots copied out of routeNotes, in order
    rpc,            \* the unary / server-streaming call in progress
    gfPoint,        \* GetFeature: the request
    gfReply,        \* GetFeature: the (feature, error) returned
    lfRect,         \* ListFeatures: the request
    lfIdx,          \* ListFeatures: position of the range loop in knownFeatures
    lfOut,          \* ListFeatures: the features stream.Send has accepted so far
    lfRet,          \* ListFeatures: "" while running, else what the handler returned
    now,            \* the clock time.Now() reads, in ticks
    rrPc,           \* RecordRoute: "idle", "recv" in the loop, "close" in
                    \* SendAndClose, "done"
    rrPointCount,   \* RecordRoute: pointCount (int32)
    rrFeatureCount, \* RecordRoute: featureCount (int32)
    rrDistance,     \* RecordRoute: distance (int32)
    rrLastPoint,    \* RecordRoute: lastPoint, <<>> when nil, else <<point>>
    rrStartTime,    \* RecordRoute: startTime
    rrEndTime,      \* RecordRoute: endTime
    rrRecvd,        \* RecordRoute: the points stream.Recv has delivered so far
    rrSent,         \* RecordRoute: the summaries handed to stream.SendAndClose
    rrRet,          \* RecordRoute: "" while running, else what the handler returned
    rrEntered,      \* history: the time the handler was entered, -1 before
    rrFirstRecv,    \* history: the time the first point was received, -1 before
    irPoint,        \* inRange: the point of the last evaluation
    irRect,         \* inRange: the rectangle of the last evaluation
    irResult,       \* inRange: its result
    irSwapped       \* inRange: its result with the corners of the rectangle swapped

chatVars == <<routeNotes, mu, pc, inbound, outbound, key, tmp, rn, idx, ret,
              appends, snapshots>>
featVars == <<rpc, gfPoint, gfReply, lfRect, lfIdx, lfOut, lfRet>>
recVars == <<now, rrPc, rrPointCount, rrFeatureCount, rrDistance, rrLastPoint,
             rrStartTime, rrEndTime, rrRecvd, rrSent, rrRet, rrEntered,
             rrFirstRecv>>
geoVars == <<irPoint, irRect, irResult, irSwapped>>
vars == <<knownFeatures, chatVars, featVars, recVars, geoVars>>

(***************************************************************************)
(* Helpers on sequences.                                                   *)
(***************************************************************************)
IsPrefix(s, t) == Len(s) <= Len(t) /\ SubSeq(t, 1, Len(s)) = s

IsStrictPrefix(s, t) == Len(s) < Len(t) /\ SubSeq(t, 1, Len(s)) = s

SeqsUpTo(S, n) == UNION { [1..k -> S] : k \in 0..n }

(***************************************************************************)
(* The note registry: a Go map from string to slice.                       *)
(***************************************************************************)
\* A broken key: the separator is missing.
KeyNoSeparator(p) == ToString(p.Latitude) \o ToString(p.Longitude)

\* fmt.Sprintf("%d %d", in.Location.Latitude, in.Location.Longitude)
Key(p) == ToString(p.Latitude) \o " " \o ToString(p.Longitude)

\* s.routeNotes[key] read: a missing key reads as the nil slice.
MapGet(m, k) == IF k \in DOMAIN m THEN m[k] ELSE <<>>

\* s.routeNotes[key] = v
MapSet(m, k, v) == [x \in (DOMAIN m) \cup {k} |-> IF x = k THEN v ELSE m[x]]

\* The note the current iteration received (the local in).
In(c) == inbound[c][Len(inbound[c])]

TotalReceived == LET RECURSIVE Sum(_)
                     Sum(n) == IF n = 0 THEN 0 ELSE Len(inbound[n]) + Sum(n - 1)
                 IN  Sum(NumCalls)

(***************************************************************************)
(* RouteChat, one action per step of the handler.                          *)
(***************************************************************************)
\* in, err := stream.Recv() delivers a note left at p; key := fmt.Sprintf(...)
RecvNote(c, p) ==
    /\ pc[c] = "recv"
    /\ TotalReceived < MaxNotes
    /\ inbound' = [inbound EXCEPT ![c] =
                      Append(@, [Location |-> p,
                                 Message |-> MessageOf(c, Len(@) + 1)])]
    /\ key' = [key EXCEPT ![c] = Key(p)]
    /\ tmp' = [tmp EXCEPT ![c] = <<>>]
    /\ rn' = [rn EXCEPT ![c] = <<>>]
    /\ idx' = [idx EXCEPT ![c] = 0]
    /\ pc' = [pc EXCEPT ![c] = "lock"]
    /\ UNCHANGED <<routeNotes, mu, outbound, ret, appends, snapshots>>
    /\ UNCHANGED <<knownFeatures, featVars, recVars, geoVars>>

\* err == io.EOF: return nil
RecvEOF(c) ==
    /\ pc[c] = "recv"
    /\ pc' = [pc EXCEPT ![c] = "done"]
    /\ ret' = [ret EXCEPT ![c] = "nil"]
    /\ UNCHANGED <<routeNotes, mu, inbound, outbound, key, tmp, rn, idx,
                   appends, snapshots>>
    /\ UNCHANGED <<knownFeatures, featVars, recVars, geoVars>>

\* err != nil: return err
RecvErr(c) ==
    /\ pc[c] = "recv"
    /\ pc' = [pc EXCEPT ![c] = "done"]
    /\ ret' = [ret EXCEPT ![c] = "RecvErr"]
    /\ UNCHANGED <<routeNotes, mu, inbound, outbound, key, tmp, rn, idx,
                   appends, snapshots>>
    /\ UNCHANGED <<knownFeatures, featVars, recVars, geoVars>>

\* A broken lock: it is taken whether or not another call holds it.
LockNoWait(c) ==
    /\ pc[c] = "lock"
    /\ mu' = c
    /\ pc' = [pc EXCEPT ![c] = "append"]
    /\ UNCHANGED <<routeNotes, inbound, outbound, key, tmp, rn, idx, ret,
                   appends, snapshots>>
    /\ UNCHANGED <<knownFeatures, featVars, recVars, geoVars>>

\* s.mu.Lock(): blocks until the mutex is free
Lock(c) ==
    /\ pc[c] = "lock"
    /\ mu = 0
    /\ mu' = c
    /\ pc' = [pc EXCEPT ![c] = "append"]
    /\ UNCHANGED <<routeNotes, inbound, outbound, key, tmp, rn, idx, ret,
                   appends, snapshots>>
    /\ UNCHANGED <<knownFeatures, featVars, recVars, geoVars>>

\* append(s.routeNotes[key], in): the right-hand side of the assignment
AppendNote(c) ==
    /\ pc[c] = "append"
    /\ tmp' = [tmp EXCEPT ![c] = Append(MapGet(routeNotes, key[c]), In(c))]
    /\ pc' = [pc EXCEPT ![c] = "assign"]
    /\ UNCHANGED <<routeNotes, mu, inbound, outbound, key, rn, idx, ret,
                   appends, snapshots>>
    /\ UNCHANGED <<knownFeatures, featVars, recVars, geoVars>>

\* A broken store: the slice at the key is replaced by the new note alone.
AssignNotesOverwrite(c) ==
    /\ pc[c] = "assign"
    /\ routeNotes' = MapSet(routeNotes, key[c], <<In(c)>>)
    /\ appends' = Append(appends, [call |-> c, note |-> In(c)])
    /\ pc' = [pc EXCEPT ![c] = "copy"]
    /\ UNCHANGED <<mu, inbound, outbound, key, tmp, rn, idx, ret, snapshots>>
    /\ UNCHANGED <<knownFeatures, featVars, recVars, geoVars>>

\* s.routeNotes[key] = ...: the store into the map
AssignNotes(c) ==
    /\ pc[c] = "assign"
    /\ routeNotes' = MapSet(routeNotes, key[c], tmp[c])
    /\ appends' = Append(appends, [call |-> c, note |-> In(c)])
    /\ pc' = [pc EXCEPT ![c] = "copy"]
    /\ UNCHANGED <<mu, inbound, outbound, key, tmp, rn, idx, ret, snapshots>>
    /\ UNCHANGED <<knownFeatures, featVars, recVars, geoVars>>

\* A broken copy: the snapshot holds the new note alone.
CopyNotesLastOnly(c) ==
    /\ pc[c] = "copy"
    /\ rn' = [rn EXCEPT ![c] = <<In(c)>>]
    /\ snapshots' = Append(snapshots,
                           [call |-> c, key |-> key[c], rn |-> <<In(c)>>])
    /\ pc' = [pc EXCEPT ![c] = "unlock"]
    /\ UNCHANGED <<routeNotes, mu, inbound, outbound, key, tmp, idx, ret,
                   appends>>
    /\ UNCHANGED <<knownFeatures, featVars, recVars, geoVars>>

\* rn := make(..., len(s.routeNotes[key])); copy(rn, s.routeNotes[key])
CopyNotes(c) ==
    /\ pc[c] = "copy"
    /\ rn' = [rn EXCEPT ![c] = MapGet(routeNotes, key[c])]
    /\ snapshots' = Append(snapshots,
                           [call |-> c, key |-> key[c],
                            rn |-> MapGet(routeNotes, key[c])])
    /\ pc' = [pc EXCEPT ![c] = "unlock"]
    /\ UNCHANGED <<routeNotes, mu, inbound, outbound, key, tmp, idx, ret,
                   appends>>
    /\ UNCHANGED <<knownFeatures, featVars, recVars, geoVars>>

\* A broken unlock (a deferred one): the handler goes on to send with the
\* mutex still held.
UnlockDeferred(c) ==
    /\ pc[c] = "unlock"
    /\ idx' = [idx EXCEPT ![c] = 1]
    /\ pc' = [pc EXCEPT ![c] = "send"]
    /\ UNCHANGED <<routeNotes, mu, inbound, outbound, key, tmp, rn, ret,
                   appends, snapshots>>
    /\ UNCHANGED <<knownFeatures, featVars, recVars, geoVars>>

\* s.mu.Unlock(); the range loop over rn starts
Unlock(c) ==
    /\ pc[c] = "unlock"
    /\ mu' = 0
    /\ idx' = [idx EXCEPT ![c] = 1]
    /\ pc' = [pc EXCEPT ![c] = "send"]
    /\ UNCHANGED <<routeNotes, inbound, outbound, key, tmp, rn, ret,
                   appends, snapshots>>
    /\ UNCHANGED <<knownFeatures, featVars, recVars, geoVars>>

\* A broken send loop: it ranges over the registry's own slice, not a copy.
SendOkLive(c) ==
    /\ pc[c] = "send"
    /\ idx[c] <= Len(MapGet(routeNotes, key[c]))
    /\ outbound' = [outbound EXCEPT ![c] =
                       Append(@, MapGet(routeNotes, key[c])[idx[c]])]
    /\ idx' = [idx EXCEPT ![c] = @ + 1]
    /\ pc' = [pc EXCEPT ![c] = IF idx[c] = Len(MapGet(routeNotes, key[c]))
                               THEN "recv" ELSE "send"]
    /\ UNCHANGED <<routeNotes, mu, inbound, key, tmp, rn, ret, appends,
                   snapshots>>
    /\ UNCHANGED <<knownFeatures, featVars, recVars, geoVars>>

\* stream.Send(note) succeeds; after the last note of rn the loop ends and
\* the handler goes back to stream.Recv()
SendOk(c) ==
    /\ pc[c] = "send"
    /\ idx[c] <= Len(rn[c])
    /\ outbound' = [outbound EXCEPT ![c] = Append(@, rn[c][idx[c]])]
    /\ idx' = [idx EXCEPT ![c] = @ + 1]
    /\ pc' = [pc EXCEPT ![c] = IF idx[c] = Len(rn[c]) THEN "recv" ELSE "send"]
    /\ UNCHANGED <<routeNotes, mu, inbound, key, tmp, rn, ret, appends,
                   snapshots>>
    /\ UNCHANGED <<knownFeatures, featVars, recVars, geoVars>>

\* A broken abort: the handler takes its note back out of the registry.
SendFailRollback(c) ==
    /\ pc[c] = "send"
    /\ idx[c] <= Len(rn[c])
    /\ routeNotes' = MapSet(routeNotes, key[c],
                            SubSeq(rn[c], 1, Len(rn[c]) - 1))
    /\ pc' = [pc EXCEPT ![c] = "done"]
    /\ ret' = [ret EXCEPT ![c] = "SendErr"]
    /\ UNCHANGED <<mu, inbound, outbound, key, tmp, rn, idx, appends,
                   snapshots>>
    /\ UNCHANGED <<knownFeatures, featVars, recVars, geoVars>>

\* stream.Send(note) fails: return err
SendFail(c) ==
    /\ pc[c] = "send"
    /\ idx[c] <= Len(rn[c])
    /\ pc' = [pc EXCEPT ![c] = "done"]
    /\ ret' = [ret EXCEPT ![c] = "SendErr"]
    /\ UNCHANGED <<routeNotes, mu, inbound, outbound, key, tmp, rn, idx,
                   appends, snapshots>>
    /\ UNCHANGED <<knownFeatures, featVars, recVars, geoVars>>

(***************************************************************************)
(* Geometry.                                                               *)
(***************************************************************************)
\* float64(x) of an int32 x: every int32 is a float64, the value is kept.
Float64(x) == x

\* math.Min, math.Max
Min(a, b) == IF a <= b THEN a ELSE b

Max(a, b) == IF a >= b THEN a ELSE b

\* A broken test: Lo is taken for the lower left corner, Hi for the upper
\* right one.
inRangeLoHi(point, rect) ==
    /\ Float64(point.Longitude) >= Float64(rect.Lo.Longitude)
    /\ Float64(point.Longitude) <= Float64(rect.Hi.Longitude)
    /\ Float64(point.Latitude) >= Float64(rect.Lo.Latitude)
    /\ Float64(point.Latitude) <= Float64(rect.Hi.Latitude)

\* inRange(point, rect)
inRange(point, rect) ==
    LET left   == Min(Float64(rect.Lo.Longitude), Float64(rect.Hi.Longitude))
        right  == Max(Float64(rect.Lo.Longitude), Float64(rect.Hi.Longitude))
        top    == Max(Float64(rect.Lo.Latitude), Float64(rect.Hi.Latitude))
        bottom == Min(Float64(rect.Lo.Latitude), Float64(rect.Hi.Latitude))
    IN  /\ Float64(point.Longitude) >= left
        /\ Float64(point.Longitude) <= right
        /\ Float64(point.Latitude) >= bottom
        /\ Float64(point.Latitude) <= top

\* The points and rectangles inRange is evaluated on: each coordinate can lie
\* strictly inside, on the edge of, or outside a range.
GeoCoords == {-1, 0, 1}

GeoPoints == [Latitude : GeoCoords, Longitude : GeoCoords]

GeoRectangles == [Lo : GeoPoints, Hi : GeoPoints]

\* inRange is evaluated on a point and a rectangle, and on the same
\* rectangle with its corners swapped.
InRangeCall(point, rect) ==
    /\ irPoint' = point
    /\ irRect' = rect
    /\ irResult' = inRange(point, rect)
    /\ irSwapped' = inRange(point, [Lo |-> rect.Hi, Hi |-> rect.Lo])
    /\ UNCHANGED <<knownFeatures, chatVars, featVars, recVars>>

\* proto.Equal on two points: both fields equal
protoEqual(a, b) == a.Latitude = b.Latitude /\ a.Longitude = b.Longitude

(***************************************************************************)
(* GetFeature: the value and the error it returns.                         *)
(***************************************************************************)
\* A broken scan: a later feature at the point replaces an earlier one.
GetFeatureLast(point) ==
    LET RECURSIVE Scan(_)
        Scan(i) ==
            IF i = 0
            THEN [feature |-> [Name |-> "", Location |-> point], err |-> "nil"]
            ELSE IF protoEqual(knownFeatures[i].Location, point)
                 THEN [feature |-> knownFeatures[i], err |-> "nil"]
                 ELSE Scan(i - 1)
    IN  Scan(Len(knownFeatures))

GetFeature(point) ==
    LET RECURSIVE Scan(_)
        Scan(i) ==
            IF i > Len(knownFeatures)
            THEN [feature |-> [Name |-> "", Location |-> point], err |-> "nil"]
            ELSE IF protoEqual(knownFeatures[i].Location, point)
                 THEN [feature |-> knownFeatures[i], err |-> "nil"]
                 ELSE Scan(i + 1)
    IN  Scan(1)

\* No handler of the feature calls is running.
NoRpcRunning == rpc # "ListFeatures" \/ lfRet # ""

\* A client calls GetFeature(point) and gets its reply.
GetFeatureCall(point) ==
    /\ NoRpcRunning
    /\ rpc' = "GetFeature"
    /\ gfPoint' = point
    /\ gfReply' = GetFeature(point)
    /\ lfRect' = <<>>
    /\ lfIdx' = 0
    /\ lfOut' = <<>>
    /\ lfRet' = ""
    /\ UNCHANGED <<knownFeatures, chatVars, recVars, geoVars>>

(***************************************************************************)
(* ListFeatures, one action per pass of the range loop.                    *)
(***************************************************************************)
\* A client calls ListFeatures(rect): the handler starts its loop.
ListFeaturesCall(rect) ==
    /\ NoRpcRunning
    /\ rpc' = "ListFeatures"
    /\ lfRect' = rect
    /\ lfIdx' = 1
    /\ lfOut' = <<>>
    /\ lfRet' = ""
    /\ gfPoint' = <<>>
    /\ gfReply' = <<>>
    /\ UNCHANGED <<knownFeatures, chatVars, recVars, geoVars>>

ListFeaturesLooping ==
    /\ rpc = "ListFeatures"
    /\ lfRet = ""
    /\ lfIdx <= Len(knownFeatures)

\* inRange(feature.Location, rect) is false: next feature
ListFeaturesSkip ==
    /\ ListFeaturesLooping
    /\ ~ inRange(knownFeatures[lfIdx].Location, lfRect)
    /\ lfIdx' = lfIdx + 1
    /\ UNCHANGED <<rpc, gfPoint, gfReply, lfRect, lfOut, lfRet>>
    /\ UNCHANGED <<knownFeatures, chatVars, recVars, geoVars>>

\* A broken loop: the handler returns after the first feature it sends.
ListFeaturesSendOkReturn ==
    /\ ListFeaturesLooping
    /\ inRange(knownFeatures[lfIdx].Location, lfRect)
    /\ lfOut' = Append(lfOut, knownFeatures[lfIdx])
    /\ lfRet' = "nil"
    /\ UNCHANGED <<rpc, gfPoint, gfReply, lfRect, lfIdx>>
    /\ UNCHANGED <<knownFeatures, chatVars, recVars, geoVars>>

\* stream.Send(feature) succeeds: next feature
ListFeaturesSendOk ==
    /\ ListFeaturesLooping
    /\ inRange(knownFeatures[lfIdx].Location, lfRect)
    /\ lfOut' = Append(lfOut, knownFeatures[lfIdx])
    /\ lfIdx' = lfIdx + 1
    /\ UNCHANGED <<rpc, gfPoint, gfReply, lfRect, lfRet>>
    /\ UNCHANGED <<knownFeatures, chatVars, recVars, geoVars>>

\* A broken abort: the feature whose send failed is sent again before the
\* handler returns the error.
ListFeaturesSendFailResend ==
    /\ ListFeaturesLooping
    /\ inRange(knownFeatures[lfIdx].Location, lfRect)
    /\ lfOut' = Append(lfOut, knownFeatures[lfIdx])
    /\ lfRet' = "SendErr"
    /\ UNCHANGED <<rpc, gfPoint, gfReply, lfRect, lfIdx>>
    /\ UNCHANGED <<knownFeatures, chatVars, recVars, geoVars>>

\* stream.Send(feature) fails: return err
ListFeaturesSendFail ==
    /\ ListFeaturesLooping
    /\ inRange(knownFeatures[lfIdx].Location, lfRect)
    /\ lfRet' = "SendErr"
    /\ UNCHANGED <<rpc, gfPoint, gfReply, lfRect, lfIdx, lfOut>>
    /\ UNCHANGED <<knownFeatures, chatVars, recVars, geoVars>>

\* The loop is over: return nil
ListFeaturesReturn ==
    /\ rpc = "ListFeatures"
    /\ lfRet = ""
    /\ lfIdx > Len(knownFeatures)
    /\ lfRet' = "nil"
    /\ UNCHANGED <<rpc, gfPoint, gfReply, lfRect, lfIdx, lfOut>>
    /\ UNCHANGED <<knownFeatures, chatVars, recVars, geoVars>>

(***************************************************************************)
(* int32 arithmetic and time.                                              *)
(***************************************************************************)
\* The largest int32.
MaxInt32 == 2147483647

\* a + b on int32: the sum wraps around modulo 2^32.
Add32(a, b) ==
    IF b > 0 /\ a > MaxInt32 - b
    THEN (a - MaxInt32 - 1) + (b - MaxInt32 - 1)
    ELSE IF b < 0 /\ a < (-MaxInt32 - 1) - b
         THEN (a + MaxInt32 + 1) + (b + MaxInt32 + 1)
         ELSE a + b

\* A broken conversion: the seconds are rounded up.
ElapsedSecondsCeil(d) == (d + TicksPerSecond - 1) \div TicksPerSecond

\* int32(d.Seconds()) of a duration d >= 0 in ticks: the whole seconds.
ElapsedSeconds(d) == d \div TicksPerSecond

(***************************************************************************)
(* The float64 arithmetic of calcDistance, bit for bit: a float64 is the    *)
(* record [nan, neg, m, e], not a number (nan) or (-1)^neg * m * 2^e with   *)
(* m = 0 or 2^52 <= m < 2^53, and every operation rounds its exact result   *)
(* to the nearest such number, ties to the even m, as IEEE 754 prescribes.  *)
(* math.Sin, math.Cos and math.Atan2 are the routines of the Go library     *)
(* (no hardware instruction computes them on amd64), math.Sqrt is correctly *)
(* rounded, and no multiplication is fused with an addition, as on amd64.   *)
(* The numbers of calcDistance stay far from the largest and the smallest   *)
(* float64 and its divisors are never zero: no infinity and no subnormal    *)
(* number is modelled.  The natural numbers m are sequences of digits in    *)
(* base Limb, the lowest first, so that they fit the integers of TLC.       *)
(***************************************************************************)

\* Op(a), Op(a, b) with the arguments evaluated once
Once1(a, Op(_)) == CHOOSE r \in { Op(aa) : aa \in {a} } : TRUE
Once2(a, b, Op(_, _)) == CHOOSE r \in { Op(aa, bb) : aa \in {a}, bb \in {b} } : TRUE

\* Call(op, args) applies the operation named op to the operands args, which
\* it evaluates once: an operation F is defined below by FV, on operands
\* that are values, and F(x, y) is Call("F", <<x, y>>).
RECURSIVE Call(_, _)

LimbBits == 13
Limb == 8192
MantBits == 53

\* A natural number: its digits in base Limb, the lowest first, the highest
\* not 0; <<>> is 0.
At(a, i) == IF i >= 1 /\ i <= Len(a) THEN a[i] ELSE 0

Trim(s) ==
    LET RECURSIVE Go(_)
        Go(n) == IF n = 0 THEN <<>>
                 ELSE IF s[n] # 0 THEN SubSeq(s, 1, n) ELSE Go(n - 1)
    IN  Go(Len(s))

NFromInt(n) ==
    LET RECURSIVE Go(_)
        Go(k) == IF k = 0 THEN <<>> ELSE <<k % Limb>> \o Go(k \div Limb)
    IN  Go(n)

NToInt(a) ==
    LET RECURSIVE Go(_)
        Go(i) == IF i > Len(a) THEN 0 ELSE a[i] + Limb * Go(i + 1)
    IN  Go(1)

NAddV(a, b) ==
    LET n == IF Len(a) > Len(b) THEN Len(a) ELSE Len(b)
        RECURSIVE Go(_, _)
        Go(k, c) ==
            IF k > n THEN (IF c = 0 THEN <<>> ELSE <<c>>)
            ELSE Once1(At(a, k) + At(b, k) + c,
                       LAMBDA d : <<d % Limb>> \o Go(k + 1, d \div Limb))
    IN  Go(1, 0)
NAdd(a, b) == Call("NAdd", <<a, b>>)

\* a - b, a >= b
NSubV(a, b) ==
    LET RECURSIVE Go(_, _)
        Go(k, br) ==
            IF k > Len(a) THEN <<>>
            ELSE Once1(a[k] - At(b, k) - br,
                       LAMBDA d : IF d < 0 THEN <<d + Limb>> \o Go(k + 1, 1)
                                  ELSE <<d>> \o Go(k + 1, 0))
    IN  Once1(Go(1, 0), Trim)
NSub(a, b) == Call("NSub", <<a, b>>)

NLessV(a, b) ==
    \/ Len(a) < Len(b)
    \/ /\ Len(a) = Len(b)
       /\ \E i \in 1..Len(a) :
             /\ a[i] < b[i]
             /\ \A j \in (i + 1)..Len(a) : a[j] = b[j]
NLess(a, b) == Call("NLess", <<a, b>>)

NMulV(a, b) ==
    LET n == Len(a) + Len(b)
        RECURSIVE Dot(_, _)
        Dot(k, i) == IF i > Len(a) \/ i > k THEN 0
                     ELSE At(a, i) * At(b, k - i + 1) + Dot(k, i + 1)
        RECURSIVE Go(_, _)
        Go(k, c) ==
            IF k > n THEN <<>>
            ELSE Once1(Dot(k, IF k > Len(b) THEN k - Len(b) + 1 ELSE 1) + c,
                       LAMBDA d : <<d % Limb>> \o Go(k + 1, d \div Limb))
    IN  IF a = <<>> \/ b = <<>> THEN <<>> ELSE Once1(Go(1, 0), Trim)
NMul(a, b) == Call("NMul", <<a, b>>)

\* a * 2^k
NShlV(a, k) ==
    LET q == k \div LimbBits
        f == 2 ^ (k % LimbBits)
        RECURSIVE Zeros(_)
        Zeros(n) == IF n = 0 THEN <<>> ELSE <<0>> \o Zeros(n - 1)
        RECURSIVE Go(_, _)
        Go(i, c) ==
            IF i > Len(a) THEN (IF c = 0 THEN <<>> ELSE <<c>>)
            ELSE Once1(a[i] * f + c,
                       LAMBDA d : <<d % Limb>> \o Go(i + 1, d \div Limb))
    IN  IF a = <<>> THEN <<>> ELSE Zeros(q) \o Go(1, 0)
NShl(a, k) == Call("NShl", <<a, k>>)

\* a \div 2^k
NShrV(a, k) ==
    LET q == k \div LimbBits
        r == k % LimbBits
        f == 2 ^ r
        g == 2 ^ (LimbBits - r)
        RECURSIVE Go(_)
        Go(i) == IF i > Len(a) THEN <<>>
                 ELSE <<(a[i] \div f) + (At(a, i + 1) % f) * g>> \o Go(i + 1)
    IN  Once1(Go(q + 1), Trim)
NShr(a, k) == Call("NShr", <<a, k>>)

\* a % 2^k # 0
NLowV(a, k) ==
    LET q == k \div LimbBits
        r == k % LimbBits
    IN  \/ \E i \in 1..q : At(a, i) # 0
        \/ At(a, q + 1) % (2 ^ r) # 0
NLow(a, k) == Call("NLow", <<a, k>>)

\* bit k of a, the lowest being bit 1
NBitV(a, k) ==
    (At(a, ((k - 1) \div LimbBits) + 1) \div (2 ^ ((k - 1) % LimbBits))) % 2 = 1
NBit(a, k) == Call("NBit", <<a, k>>)

NBitLenV(a) ==
    IF a = <<>> THEN 0
    ELSE LimbBits * (Len(a) - 1)
         + (CHOOSE n \in 1..LimbBits : 2 ^ (n - 1) <= a[Len(a)] /\ a[Len(a)] < 2 ^ n)
NBitLen(a) == Call("NBitLen", <<a>>)

\* math.NaN(), and the zero of either sign.
NaN == [nan |-> TRUE, neg |-> FALSE, m |-> <<>>, e |-> 0]
FZero(neg) == [nan |-> FALSE, neg |-> neg, m |-> <<>>, e |-> 0]

\* M * 2^e (a little more when sticky), rounded to the nearest float64, ties to even
RoundPackV(neg, M, e, sticky) ==
    LET L == NBitLen(M)
        sh == L - MantBits
    IN  IF M = <<>> THEN FZero(neg)
        ELSE IF sh <= 0
             THEN [nan |-> FALSE, neg |-> neg, m |-> NShl(M, -sh), e |-> e + sh]
             ELSE Once1(NShr(M, sh),
                   LAMBDA q :
                     LET up == NBit(M, sh) /\ (sticky \/ NLow(M, sh - 1) \/ NBit(q, 1))
                     IN  Once1(IF up THEN NAdd(q, <<1>>) ELSE q,
                           LAMBDA qq :
                             IF NBitLen(qq) > MantBits
                             THEN [nan |-> FALSE, neg |-> neg, m |-> NShr(qq, 1), e |-> e + sh + 1]
                             ELSE [nan |-> FALSE, neg |-> neg, m |-> qq, e |-> e + sh]))
RoundPack(neg, M, e, sticky) == Call("RoundPack", <<neg, M, e, sticky>>)

FNegV(x) == IF x.nan THEN x ELSE [x EXCEPT !.neg = ~x.neg]
FNeg(x) == Call("FNeg", <<x>>)

FMulV(x, y) ==
    IF x.nan \/ y.nan THEN NaN
    ELSE IF x.m = <<>> \/ y.m = <<>> THEN FZero(x.neg # y.neg)
    ELSE RoundPack(x.neg # y.neg, NMul(x.m, y.m), x.e + y.e, FALSE)
FMul(x, y) == Call("FMul", <<x, y>>)

\* the largest difference of exponents at which the smaller operand is added exactly
FarApart == 64

\* x + y for x, y not zero, |x| >= |y| by exponent
FAddOrdered(x, y) ==
    LET d == x.e - y.e
    IN  IF d > FarApart
        THEN IF x.neg = y.neg THEN RoundPack(x.neg, NShl(x.m, 2), x.e - 2, TRUE)
             ELSE RoundPack(x.neg, NSub(NShl(x.m, 2), <<1>>), x.e - 2, TRUE)
        ELSE Once1(NShl(x.m, d),
               LAMBDA xm :
                 IF x.neg = y.neg THEN RoundPack(x.neg, NAdd(xm, y.m), y.e, FALSE)
                 ELSE IF xm = y.m THEN FZero(FALSE)
                 ELSE IF NLess(xm, y.m) THEN RoundPack(y.neg, NSub(y.m, xm), y.e, FALSE)
                 ELSE RoundPack(x.neg, NSub(xm, y.m), y.e, FALSE))

FAddV(x, y) ==
    IF x.nan \/ y.nan THEN NaN
    ELSE IF x.m = <<>> /\ y.m = <<>> THEN FZero(x.neg /\ y.neg)
    ELSE IF x.m = <<>> THEN y
    ELSE IF y.m = <<>> THEN x
    ELSE IF x.e >= y.e THEN FAddOrdered(x, y) ELSE FAddOrdered(y, x)
FAdd(x, y) == Call("FAdd", <<x, y>>)
FSub(x, y) == FAdd(x, FNeg(y))

\* n applications of Step to st, by halves
Iterate(Step(_), st, n) ==
    LET RECURSIVE Go(_, _)
        Go(s, k) == IF k = 0 THEN s
                    ELSE IF k = 1 THEN Once1(s, Step)
                    ELSE Once1(Go(s, k \div 2), LAMBDA t : Go(t, k - k \div 2))
    IN  Go(st, n)

\* the bits of the quotient computed for a division
QuotBits == 56

\* floor(a * 2^(QuotBits - 1) / b) and whether a remainder is left, for a/b in (1/2, 2)
NDivideV(a, b) ==
    LET Step(st) ==
            IF NLess(st[1], b) THEN <<NShl(st[1], 1), NShl(st[2], 1)>>
            ELSE <<NShl(NSub(st[1], b), 1), NAdd(NShl(st[2], 1), <<1>>)>>
    IN  Iterate(Step, <<a, <<>>>>, QuotBits)
NDivide(a, b) == Call("NDivide", <<a, b>>)

FDivV(x, y) ==
    IF x.nan \/ y.nan THEN NaN
    ELSE IF y.m = <<>> THEN NaN
    ELSE IF x.m = <<>> THEN FZero(x.neg # y.neg)
    ELSE Once1(NDivide(x.m, y.m),
           LAMBDA st : RoundPack(x.neg # y.neg, st[2], x.e - y.e - (QuotBits - 1),
                                 st[1] # <<>>))
FDiv(x, y) == Call("FDiv", <<x, y>>)

\* the bits of the root computed for a square root
RootBits == 54

\* floor(sqrt(M)) for M < 2^(2 * RootBits)
NSqrtV(M) ==
    LET Step(st) ==  \* st = <<root so far, bit to try>>
            Once1(NAdd(st[1], NShl(<<1>>, st[2])),
                  LAMBDA c : IF NLess(M, NMul(c, c)) THEN <<st[1], st[2] - 1>>
                             ELSE <<c, st[2] - 1>>)
    IN  Once1(Iterate(Step, <<<<>>, RootBits - 1>>, RootBits), LAMBDA st : st[1])
NSqrt(M) == Call("NSqrt", <<M>>)

SqrtV(x) ==
    IF x.nan THEN NaN
    ELSE IF x.m = <<>> THEN x
    ELSE IF x.neg THEN NaN
    ELSE LET k == IF (x.e % 2) = 0 THEN 2 * RootBits - MantBits - 1
                  ELSE 2 * RootBits - MantBits
         IN  Once1(NShl(x.m, k),
               LAMBDA M : Once1(NSqrt(M),
                 LAMBDA s : RoundPack(FALSE, s, (x.e - k) \div 2, NMul(s, s) # M)))

FLessV(x, y) ==  \* x < y, neither NaN
    IF x.m = <<>> /\ y.m = <<>> THEN FALSE
    ELSE IF x.m = <<>> THEN ~y.neg
    ELSE IF y.m = <<>> THEN x.neg
    ELSE IF x.neg # y.neg THEN x.neg
    ELSE LET lessMag(a, b) == a.e < b.e \/ (a.e = b.e /\ NLess(a.m, b.m))
         IN  IF x.neg THEN lessMag(y, x) ELSE lessMag(x, y)
FLess(x, y) == Call("FLess", <<x, y>>)

\* float64(n) for an int32 n
Float64OfInt32V(n) ==
    IF n >= 0 THEN RoundPack(FALSE, NFromInt(n), 0, FALSE)
    ELSE RoundPack(TRUE, NAdd(NFromInt(-(n + 1)), <<1>>), 0, FALSE)
Float64OfInt32(n) == Call("Float64OfInt32", <<n>>)

\* the whole part of |x| as a natural number, for |x| < 2^53
FTruncV(x) == IF x.m = <<>> THEN <<>>
              ELSE IF x.e >= 0 THEN NShl(x.m, x.e) ELSE NShr(x.m, -x.e)
FTrunc(x) == Call("FTrunc", <<x>>)


\* The constants, converted from their decimal text as the compiler does.
Pow10(k) ==
    LET RECURSIVE Go(_)
        Go(n) == IF n = 0 THEN <<1>>
                 ELSE Once1(Go(n \div 2),
                        LAMBDA h : IF n % 2 = 0 THEN NMul(h, h)
                                   ELSE NMul(NMul(h, h), <<10>>))
    IN  Go(k)

\* the natural number written with the decimal digits ds
NFromDigits(ds) ==
    LET RECURSIVE Go(_, _)
        Go(lo, hi) ==
            IF lo = hi THEN NFromInt(ds[lo])
            ELSE LET mid == (lo + hi) \div 2
                 IN  NAdd(NMul(Go(lo, mid), Pow10(hi - mid)), Go(mid + 1, hi))
    IN  Go(1, Len(ds))

\* the float64 nearest to A / B, for natural numbers A, B > 0
RatioV(neg, A, B) ==
    LET s == NBitLen(A) - NBitLen(B)
    IN  Once1(IF s >= 0 THEN NDivide(A, NShl(B, s)) ELSE NDivide(NShl(A, -s), B),
          LAMBDA st : RoundPack(neg, st[2], s - (QuotBits - 1), st[1] # <<>>))
Ratio(neg, A, B) == Call("Ratio", <<neg, A, B>>)

\* the float64 of the literal d.ddd...e<p> with digits ds
DecimalV(neg, ds, p) ==
    LET k == p - (Len(ds) - 1)
    IN  IF k >= 0 THEN Ratio(neg, NMul(NFromDigits(ds), Pow10(k)), <<1>>)
        ELSE Ratio(neg, NFromDigits(ds), Pow10(-k))
Decimal(neg, ds, p) == Call("Decimal", <<neg, ds, p>>)

PiDigits ==
    << 3, 1,4,1,5,9,2,6,5,3,5,8,9,7,9,3,2,3,8,4,6,2,6,4,3,3,8,3,2,7,9,5,0,
       2,8,8,4,1,9,7,1,6,9,3,9,9,3,7,5,1,0,5,8,2,0,9,7,4,9,4,4,5,9 >>
Pi == Decimal(FALSE, PiDigits, 0)
FourOverPi == Ratio(FALSE, NMul(<<4>>, Pow10(Len(PiDigits) - 1)), NFromDigits(PiDigits))
PiOver2 == Ratio(FALSE, NFromDigits(PiDigits), NMul(<<2>>, Pow10(Len(PiDigits) - 1)))
PiOver4 == Ratio(FALSE, NFromDigits(PiDigits), NMul(<<4>>, Pow10(Len(PiDigits) - 1)))
FOne == Decimal(FALSE, <<1>>, 0)
FTwo == Decimal(FALSE, <<2>>, 0)
FHalf == Decimal(FALSE, <<5>>, -1)
PI4A == Decimal(FALSE, <<7, 8, 5, 3, 9, 8, 1, 2, 5, 6, 4, 8, 4, 9, 8, 5, 3, 5, 1, 5, 6>>, -1)
PI4B == Decimal(FALSE, <<3, 7, 7, 4, 8, 9, 4, 7, 0, 7, 9, 3, 0, 7, 9, 8, 1, 7, 6, 6, 8>>, -8)
PI4C == Decimal(FALSE, <<2, 6, 9, 5, 1, 5, 1, 4, 2, 9, 0, 7, 9, 0, 5, 9, 5, 2, 6, 4, 5>>, -15)
sinCoeffs ==
    << Decimal(FALSE, <<1, 5, 8, 9, 6, 2, 3, 0, 1, 5, 7, 6, 5, 4, 6, 5, 6, 8, 0, 6, 0>>, -10),
       Decimal(TRUE, <<2, 5, 0, 5, 0, 7, 4, 7, 7, 6, 2, 8, 5, 7, 8, 0, 7, 2, 8, 6, 6>>, -8),
       Decimal(FALSE, <<2, 7, 5, 5, 7, 3, 1, 3, 6, 2, 1, 3, 8, 5, 7, 2, 4, 5, 2, 1, 3>>, -6),
       Decimal(TRUE, <<1, 9, 8, 4, 1, 2, 6, 9, 8, 2, 9, 5, 8, 9, 5, 3, 8, 5, 9, 9, 6>>, -4),
       Decimal(FALSE, <<8, 3, 3, 3, 3, 3, 3, 3, 3, 3, 3, 2, 2, 1, 1, 8, 5, 8, 8, 7, 8>>, -3),
       Decimal(TRUE, <<1, 6, 6, 6, 6, 6, 6, 6, 6, 6, 6, 6, 6, 6, 6, 3, 0, 7, 2, 9, 5>>, -1) >>
cosCoeffs ==
    << Decimal(TRUE, <<1, 1, 3, 5, 8, 5, 3, 6, 5, 2, 1, 3, 8, 7, 6, 8, 1, 7, 3, 0, 0>>, -11),
       Decimal(FALSE, <<2, 0, 8, 7, 5, 7, 0, 0, 8, 4, 1, 9, 7, 4, 7, 3, 1, 6, 7, 7, 8>>, -9),
       Decimal(TRUE, <<2, 7, 5, 5, 7, 3, 1, 4, 1, 7, 9, 2, 9, 6, 7, 3, 8, 8, 1, 1, 2>>, -7),
       Decimal(FALSE, <<2, 4, 8, 0, 1, 5, 8, 7, 2, 8, 8, 8, 5, 1, 7, 0, 4, 5, 3, 4, 8>>, -5),
       Decimal(TRUE, <<1, 3, 8, 8, 8, 8, 8, 8, 8, 8, 8, 8, 7, 3, 0, 5, 6, 4, 1, 1, 6>>, -3),
       Decimal(FALSE, <<4, 1, 6, 6, 6, 6, 6, 6, 6, 6, 6, 6, 6, 6, 5, 9, 2, 9, 2, 1, 8>>, -2) >>
\* The coefficients P0 to P4 and Q0 to Q4 of xatan.
atanP ==
    << Decimal(TRUE, <<8, 7, 5, 0, 6, 0, 8, 6, 0, 0, 0, 3, 1, 9, 0, 4, 1, 2, 2, 7, 8, 5>>, -1),
       Decimal(TRUE, <<1, 6, 1, 5, 7, 5, 3, 7, 1, 8, 7, 3, 3, 3, 6, 5, 0, 7, 6, 6, 3, 7>>, 1),
       Decimal(TRUE, <<7, 5, 0, 0, 8, 5, 5, 7, 9, 2, 3, 1, 4, 7, 0, 4, 6, 6, 7, 3, 4, 0>>, 1),
       Decimal(TRUE, <<1, 2, 2, 8, 8, 6, 6, 6, 8, 4, 4, 9, 0, 1, 3, 6, 1, 7, 3, 4, 1, 0>>, 2),
       Decimal(TRUE, <<6, 4, 8, 5, 0, 2, 1, 9, 0, 4, 9, 4, 2, 0, 2, 5, 3, 7, 1, 7, 7, 3>>, 1) >>
atanQ ==
    << Decimal(FALSE, <<2, 4, 8, 5, 8, 4, 6, 4, 9, 0, 1, 4, 2, 3, 0, 6, 2, 9, 7, 9, 6, 2>>, 1),
       Decimal(FALSE, <<1, 6, 5, 0, 2, 7, 0, 0, 9, 8, 3, 1, 6, 9, 8, 8, 5, 4, 2, 0, 4, 6>>, 2),
       Decimal(FALSE, <<4, 3, 2, 8, 8, 1, 0, 6, 0, 4, 9, 1, 2, 9, 0, 2, 6, 6, 8, 9, 5, 1>>, 2),
       Decimal(FALSE, <<4, 8, 5, 3, 9, 0, 3, 9, 9, 6, 3, 5, 9, 1, 3, 6, 9, 6, 4, 8, 6, 8>>, 2),
       Decimal(FALSE, <<1, 9, 4, 5, 5, 0, 6, 5, 7, 1, 4, 8, 2, 6, 1, 3, 9, 6, 4, 4, 2, 5>>, 2) >>
Morebits == Decimal(FALSE, <<6, 1, 2, 3, 2, 3, 3, 9, 9, 5, 7, 3, 6, 7, 6, 5, 8, 8, 6, 1, 3, 0>>, -17)
HalfMorebits == FMul(FHalf, Morebits)
Tan3pio8 == Decimal(FALSE, <<2, 4, 1, 4, 2, 1, 3, 5, 6, 2, 3, 7, 3, 0, 9, 5, 0, 4, 8, 8, 0>>, 0)
AtanSmall == Decimal(FALSE, <<6, 6>>, -1)

\* ((acc*z + cs[1])*z + cs[2])*z + ...
PolyV(acc, cs, z) ==
    LET RECURSIVE Go(_, _)
        Go(a, i) == IF i > Len(cs) THEN a
                    ELSE Go(FAdd(FMul(a, z), cs[i]), i + 1)
    IN  Go(acc, 1)
Poly(acc, cs, z) == Call("Poly", <<acc, cs, z>>)

\* the Cody-Waite reduction of x > 0 by Pi/4: <<octant j, remainder z>>
ReduceV(x) ==
    Once1(NToInt(FTrunc(FMul(x, FourOverPi))),
      LAMBDA j0 :
        LET j == IF j0 % 2 = 1 THEN j0 + 1 ELSE j0
        IN  Once1(Float64OfInt32(j),
              LAMBDA y : <<j % 8,
                           FSub(FSub(FSub(x, FMul(y, PI4A)), FMul(y, PI4B)),
                                FMul(y, PI4C))>>))
Reduce(x) == Call("Reduce", <<x>>)

sinPolyV(z) ==
    Once1(FMul(z, z),
      LAMBDA zz : FAdd(z, FMul(FMul(z, zz),
                               Poly(sinCoeffs[1], SubSeq(sinCoeffs, 2, 6), zz))))
sinPoly(z) == Call("sinPoly", <<z>>)
cosPolyV(z) ==
    Once1(FMul(z, z),
      LAMBDA zz : FAdd(FSub(FOne, FMul(FHalf, zz)),
                       FMul(FMul(zz, zz),
                            Poly(cosCoeffs[1], SubSeq(cosCoeffs, 2, 6), zz))))
cosPoly(z) == Call("cosPoly", <<z>>)

SinV(x) ==
    IF x.nan \/ x.m = <<>> THEN x
    ELSE Once1(Reduce([x EXCEPT !.neg = FALSE]),
           LAMBDA jz :
             LET sign == IF jz[1] > 3 THEN ~x.neg ELSE x.neg
                 j == IF jz[1] > 3 THEN jz[1] - 4 ELSE jz[1]
                 y == IF j = 1 \/ j = 2 THEN cosPoly(jz[2]) ELSE sinPoly(jz[2])
             IN  IF sign THEN FNeg(y) ELSE y)
Sin(x) == Call("Sin", <<x>>)

CosV(x) ==
    IF x.nan THEN x
    ELSE Once1(Reduce([x EXCEPT !.neg = FALSE]),
           LAMBDA jz :
             LET j == IF jz[1] > 3 THEN jz[1] - 4 ELSE jz[1]
                 sign == (jz[1] > 3) # (j > 1)
                 y == IF j = 1 \/ j = 2 THEN sinPoly(jz[2]) ELSE cosPoly(jz[2])
             IN  IF sign THEN FNeg(y) ELSE y)
Cos(x) == Call("Cos", <<x>>)

Sqrt(x) == Call("Sqrt", <<x>>)

xatanV(x) ==
    Once1(FMul(x, x),
      LAMBDA z : Once1(FDiv(FMul(z, Poly(atanP[1], SubSeq(atanP, 2, 5), z)),
                            Poly(FAdd(z, atanQ[1]), SubSeq(atanQ, 2, 5), z)),
        LAMBDA w : FAdd(FMul(x, w), x)))
xatan(x) == Call("xatan", <<x>>)

satanV(x) ==
    IF ~FLess(AtanSmall, x) THEN xatan(x)
    ELSE IF FLess(Tan3pio8, x)
         THEN FAdd(FSub(PiOver2, xatan(FDiv(FOne, x))), Morebits)
         ELSE FAdd(FAdd(PiOver4, xatan(FDiv(FSub(x, FOne), FAdd(x, FOne)))),
                   HalfMorebits)
satan(x) == Call("satan", <<x>>)

AtanV(x) ==
    IF x.nan \/ x.m = <<>> THEN x
    ELSE IF ~x.neg THEN satan(x) ELSE FNeg(satan(FNeg(x)))
Atan(x) == Call("Atan", <<x>>)

Copysign(f, sign) == [f EXCEPT !.neg = sign.neg]

Atan2V(y, x) ==
    IF x.nan \/ y.nan THEN NaN
    ELSE IF y.m = <<>>
         THEN IF ~x.neg THEN Copysign(FZero(FALSE), y) ELSE Copysign(Pi, y)
    ELSE IF x.m = <<>> THEN Copysign(PiOver2, y)
    ELSE Once1(Atan(FDiv(y, x)),
           LAMBDA q : IF x.neg
                      THEN IF ~FLess(FZero(FALSE), q) THEN FAdd(q, Pi) ELSE FSub(q, Pi)
                      ELSE q)
Atan2(y, x) == Call("Atan2", <<y, x>>)

(***************************************************************************)
(* calcDistance                                                            *)
(***************************************************************************)
\* const CordFactor float64 = 1e7
CordFactor == 10000000

\* const R float64 = float64(6371000)
R == 6371000

\* float64(180)
HalfTurn == 180

\* toRadians(num): num * math.Pi / float64(180)
toRadiansV(num) == FDiv(FMul(num, Pi), Float64OfInt32(HalfTurn))
toRadians(num) == Call("toRadians", <<num>>)

\* The smallest int32.
MinInt32 == -MaxInt32 - 1

\* int32(f) of a float64 that is not a number: the language leaves the value
\* to the implementation.  The conversion instruction of amd64 gives the
\* smallest int32, that of arm64 gives 0.
Int32OfNaN == {MinInt32, 0}

\* int32(f), the values a build can give it: f without its fraction (here
\* |f| < 2^31), or one of Int32OfNaN
Int32V(f) ==
    IF f.nan THEN Int32OfNaN
    ELSE Once1(NToInt(FTrunc(f)), LAMBDA n : {IF f.neg THEN -n ELSE n})
Int32(f) == Call("Int32", <<f>>)

\* float64(n) / CordFactor
DegreesV(n) == FDiv(Float64OfInt32(n), Float64OfInt32(CordFactor))
Degrees(n) == Call("Degrees", <<n>>)

\* calcDistance(p1, p2), the "haversine" formula: the values a build can
\* return
calcDistanceV(p1, p2) ==
    Once2(toRadians(Degrees(p1.Latitude)), toRadians(Degrees(p2.Latitude)),
      LAMBDA lat1, lat2 :
        LET lng1 == toRadians(Degrees(p1.Longitude))
            lng2 == toRadians(Degrees(p2.Longitude))
            dlat == FSub(lat2, lat1)
            dlng == FSub(lng2, lng1)
            a == Once2(Sin(FDiv(dlat, FTwo)), Sin(FDiv(dlng, FTwo)),
                       LAMBDA sdlat, sdlng :
                           FAdd(FMul(sdlat, sdlat),
                                FMul(FMul(FMul(Cos(lat1), Cos(lat2)), sdlng),
                                     sdlng)))
            c == Once1(a, LAMBDA aa :
                     FMul(FTwo, Atan2(Sqrt(aa), Sqrt(FSub(FOne, aa)))))
            distance == FMul(Float64OfInt32(R), c)
        IN  Int32(distance))
calcDistance(p1, p2) == Call("calcDistance", <<p1, p2>>)

\* The operation named op on the operands args.
Call(op, args) ==
    Once1(args, LAMBDA a :
        CASE
             op = "NAdd" -> NAddV(a[1], a[2])
          [] op = "NSub" -> NSubV(a[1], a[2])
          [] op = "NLess" -> NLessV(a[1], a[2])
          [] op = "NMul" -> NMulV(a[1], a[2])
          [] op = "NShl" -> NShlV(a[1], a[2])
          [] op = "NShr" -> NShrV(a[1], a[2])
          [] op = "NLow" -> NLowV(a[1], a[2])
          [] op = "NBit" -> NBitV(a[1], a[2])
          [] op = "NBitLen" -> NBitLenV(a[1])
          [] op = "RoundPack" -> RoundPackV(a[1], a[2], a[3], a[4])
          [] op = "FMul" -> FMulV(a[1], a[2])
          [] op = "FAdd" -> FAddV(a[1], a[2])
          [] op = "FNeg" -> FNegV(a[1])
          [] op = "FLess" -> FLessV(a[1], a[2])
          [] op = "FDiv" -> FDivV(a[1], a[2])
          [] op = "NDivide" -> NDivideV(a[1], a[2])
          [] op = "Sqrt" -> SqrtV(a[1])
          [] op = "NSqrt" -> NSqrtV(a[1])
          [] op = "FTrunc" -> FTruncV(a[1])
          [] op = "Float64OfInt32" -> Float64OfInt32V(a[1])
          [] op = "Poly" -> PolyV(a[1], a[2], a[3])
          [] op = "Reduce" -> ReduceV(a[1])
          [] op = "sinPoly" -> sinPolyV(a[1])
          [] op = "cosPoly" -> cosPolyV(a[1])
          [] op = "Sin" -> SinV(a[1])
          [] op = "Cos" -> CosV(a[1])
          [] op = "xatan" -> xatanV(a[1])
          [] op = "satan" -> satanV(a[1])
          [] op = "Atan" -> AtanV(a[1])
          [] op = "Atan2" -> Atan2V(a[1], a[2])
          [] op = "Int32" -> Int32V(a[1])
          [] op = "Ratio" -> RatioV(a[1], a[2], a[3])
          [] op = "Decimal" -> DecimalV(a[1], a[2], a[3])
          [] op = "toRadians" -> toRadiansV(a[1])
          [] op = "Degrees" -> DegreesV(a[1])
          [] op = "calcDistance" -> calcDistanceV(a[1], a[2]))

\* A quarter turn, 90 degrees, in the unit of the coordinates.
QuarterTurn == 90 * CordFactor

\* The points of the routes lie on the equator, at 0, 90 and 180 degrees of
\* longitude.
RoutePoints == { [Latitude |-> 0, Longitude |-> q * QuarterTurn] : q \in 0..2 }

\* The features the routes can visit.
RouteFeatures == [Name : {"A"}, Location : RoutePoints]

\* Two antipodes off the equator, 6 degrees north on the 180th meridian and
\* 6 degrees south on the prime meridian: the float64 a that calcDistance
\* computes for them is 1.0000000000000002, 1-a is negative and its
\* math.Sqrt is not a number.
SkewPoints ==
    { [Latitude |-> 6 * CordFactor,  Longitude |-> -2 * QuarterTurn],
      [Latitude |-> -6 * CordFactor, Longitude |-> 0] }

\* calcDistance on the pairs of points of the routes, computed once.
RouteDistances ==
    { <<p, q, calcDistance(p, q)>> : p, q \in RoutePoints }
    \cup { <<p, q, calcDistance(p, q)>> : p, q \in SkewPoints }

\* calcDistance(p1, p2) for two points of the routes: the values a build can
\* return.
DistanceOf(p1, p2) ==
    Once1(CHOOSE t \in RouteDistances : t[1] = p1 /\ t[2] = p2,
          LAMBDA t : t[3])

(***************************************************************************)
(* RecordRoute, one action per pass of the receive loop.                   *)
(***************************************************************************)
\* A broken count: a point counts once however many features lie at it.
FeaturesMatchingOnce(point) ==
    IF \E i \in 1..Len(knownFeatures) :
           protoEqual(knownFeatures[i].Location, point)
    THEN 1 ELSE 0

\* The number of times the loop over s.knownFeatures runs featureCount++
\* for a received point.
FeaturesMatching(point) ==
    LET RECURSIVE Scan(_)
        Scan(i) ==
            IF i > Len(knownFeatures) THEN 0
            ELSE (IF protoEqual(knownFeatures[i].Location, point) THEN 1 ELSE 0)
                 + Scan(i + 1)
    IN  Scan(1)

\* Time passes.
Tick ==
    /\ now < MaxTime
    /\ now' = now + 1
    /\ UNCHANGED <<rrPc, rrPointCount, rrFeatureCount, rrDistance, rrLastPoint,
                   rrStartTime, rrEndTime, rrRecvd, rrSent, rrRet, rrEntered,
                   rrFirstRecv>>
    /\ UNCHANGED <<knownFeatures, chatVars, featVars, geoVars>>

\* A client calls RecordRoute: the counters are zero, startTime := time.Now()
RecordRouteCall ==
    /\ rrPc = "idle"
    /\ rrPc' = "recv"
    /\ rrPointCount' = 0
    /\ rrFeatureCount' = 0
    /\ rrDistance' = 0
    /\ rrLastPoint' = <<>>
    /\ rrStartTime' = now
    /\ rrEntered' = now
    /\ UNCHANGED <<now, rrEndTime, rrRecvd, rrSent, rrRet, rrFirstRecv>>
    /\ UNCHANGED <<knownFeatures, chatVars, featVars, geoVars>>

\* point, err := stream.Recv() delivers a point: it is accumulated
RecordRouteRecv(point) ==
    /\ rrPc = "recv"
    /\ rrRecvd' = Append(rrRecvd, point)
    /\ rrPointCount' = Add32(rrPointCount, 1)
    /\ rrFeatureCount' = Add32(rrFeatureCount, FeaturesMatching(point))
    /\ IF rrLastPoint # <<>>
       THEN \E d \in DistanceOf(rrLastPoint[1], point) :
                rrDistance' = Add32(rrDistance, d)
       ELSE rrDistance' = rrDistance
    /\ rrLastPoint' = <<point>>
    /\ rrFirstRecv' = IF rrFirstRecv = -1 THEN now ELSE rrFirstRecv
    /\ UNCHANGED <<now, rrPc, rrStartTime, rrEndTime, rrSent, rrRet, rrEntered>>
    /\ UNCHANGED <<knownFeatures, chatVars, featVars, geoVars>>

\* err == io.EOF: endTime := time.Now(); the summary is handed to
\* stream.SendAndClose, which the handler then waits for
RecordRouteEOF ==
    /\ rrPc = "recv"
    /\ rrEndTime' = now
    /\ rrSent' = Append(rrSent,
                        [PointCount   |-> rrPointCount,
                         FeatureCount |-> rrFeatureCount,
                         Distance     |-> rrDistance,
                         ElapsedTime  |-> ElapsedSeconds(now - rrStartTime)])
    /\ rrPc' = "close"
    /\ UNCHANGED <<now, rrPointCount, rrFeatureCount, rrDistance, rrLastPoint,
                   rrStartTime, rrRecvd, rrRet, rrEntered, rrFirstRecv>>
    /\ UNCHANGED <<knownFeatures, chatVars, featVars, geoVars>>

\* stream.SendAndClose returns err (nil or the error of the transport) and
\* the handler returns it
RecordRouteClosed(err) ==
    /\ rrPc = "close"
    /\ rrRet' = err
    /\ rrPc' = "done"
    /\ UNCHANGED <<now, rrPointCount, rrFeatureCount, rrDistance, rrLastPoint,
                   rrStartTime, rrEndTime, rrRecvd, rrSent, rrEntered,
                   rrFirstRecv>>
    /\ UNCHANGED <<knownFeatures, chatVars, featVars, geoVars>>

\* A broken abort: the handler sends what it has accumulated before it returns
\* the error.
RecordRouteRecvErrSummary ==
    /\ rrPc = "recv"
    /\ rrSent' = Append(rrSent,
                        [PointCount   |-> rrPointCount,
                         FeatureCount |-> rrFeatureCount,
                         Distance     |-> rrDistance,
                         ElapsedTime  |-> ElapsedSeconds(now - rrStartTime)])
    /\ rrRet' = "RecvErr"
    /\ rrPc' = "done"
    /\ UNCHANGED <<now, rrPointCount, rrFeatureCount, rrDistance, rrLastPoint,
                   rrStartTime, rrEndTime, rrRecvd, rrEntered, rrFirstRecv>>
    /\ UNCHANGED <<knownFeatures, chatVars, featVars, geoVars>>

\* err != nil: return err
RecordRouteRecvErr ==
    /\ rrPc = "recv"
    /\ rrRet' = "RecvErr"
    /\ rrPc' = "done"
    /\ UNCHANGED <<now, rrPointCount, rrFeatureCount, rrDistance, rrLastPoint,
                   rrStartTime, rrEndTime, rrRecvd, rrSent, rrEntered,
                   rrFirstRecv>>
    /\ UNCHANGED <<knownFeatures, chatVars, featVars, geoVars>>

(***************************************************************************)
(* newServer: the registry is made empty and the features are loaded.      *)
(***************************************************************************)
\* The store the chat specification runs over (RouteChat never reads it).
ChatFeatures ==
    << [Name |-> "A", Location |-> [Latitude |-> 1, Longitude |-> 11]] >>

newServer(features) ==
    /\ routeNotes = <<>>
    /\ mu = 0
    /\ knownFeatures = features

InitCalls ==
    /\ pc = [c \in Calls |-> "recv"]
    /\ inbound = [c \in Calls |-> <<>>]
    /\ outbound = [c \in Calls |-> <<>>]
    /\ key = [c \in Calls |-> ""]
    /\ tmp = [c \in Calls |-> <<>>]
    /\ rn = [c \in Calls |-> <<>>]
    /\ idx = [c \in Calls |-> 0]
    /\ ret = [c \in Calls |-> ""]
    /\ appends = <<>>
    /\ snapshots = <<>>

InitNoRpc ==
    /\ rpc = "idle"
    /\ gfPoint = <<>>
    /\ gfReply = <<>>
    /\ lfRect = <<>>
    /\ lfIdx = 0
    /\ lfOut = <<>>
    /\ lfRet = ""

InitNoRecord ==
    /\ now = 0
    /\ rrPc = "idle"
    /\ rrPointCount = 0
    /\ rrFeatureCount = 0
    /\ rrDistance = 0
    /\ rrLastPoint = <<>>
    /\ rrStartTime = 0
    /\ rrEndTime = 0
    /\ rrRecvd = <<>>
    /\ rrSent = <<>>
    /\ rrRet = ""
    /\ rrEntered = -1
    /\ rrFirstRecv = -1

InitNoGeometry ==
    /\ irPoint = <<>>
    /\ irRect = <<>>
    /\ irResult = FALSE
    /\ irSwapped = FALSE

Init ==
    /\ newServer(ChatFeatures)
    /\ InitCalls
    /\ InitNoRpc
    /\ InitNoRecord
    /\ InitNoGeometry

\* Every call runs the handler RouteChat in a goroutine of its own.
Next ==
    \/ \E c \in Calls, p \in NotePoints : RecvNote(c, p)
    \/ \E c \in Calls : RecvEOF(c)
    \/ \E c \in Calls : RecvErr(c)
    \/ \E c \in Calls : Lock(c)
    \/ \E c \in Calls : AppendNote(c)
    \/ \E c \in Calls : AssignNotes(c)
    \/ \E c \in Calls : CopyNotes(c)
    \/ \E c \in Calls : Unlock(c)
    \/ \E c \in Calls : SendOk(c)
    \/ \E c \in Calls : SendFail(c)

Spec == Init /\ [][Next]_vars

\* The goroutine of a call is scheduled again and again, a stream.Recv
\* returns in the end (a note, io.EOF or an error), and sync.Mutex hands
\* the lock to a goroutine that keeps waiting for it.
Fairness ==
    \A c \in Calls :
        /\ WF_vars(RecvEOF(c) \/ RecvErr(c)
                      \/ \E p \in NotePoints : RecvNote(c, p))
        /\ SF_vars(Lock(c))
        /\ WF_vars(AppendNote(c))
        /\ WF_vars(AssignNotes(c))
        /\ WF_vars(CopyNotes(c))
        /\ WF_vars(Unlock(c))
        /\ WF_vars(SendOk(c))

SpecLive == Init /\ [][Next]_vars /\ Fairness

\* Any store of at most MaxFeatures features may have been loaded.
InitFeatures ==
    /\ \E features \in SeqsUpTo(Features, MaxFeatures) : newServer(features)
    /\ InitCalls
    /\ InitNoRpc
    /\ InitNoRecord
    /\ InitNoGeometry

\* The feature calls, made one after the other as the client makes them.
NextFeatures ==
    \/ \E point \in Points : GetFeatureCall(point)
    \/ \E rect \in Rectangles : ListFeaturesCall(rect)
    \/ ListFeaturesSkip
    \/ ListFeaturesSendOk
    \/ ListFeaturesSendFail
    \/ ListFeaturesReturn

SpecFeatures == InitFeatures /\ [][NextFeatures]_vars

\* inRange on every point and rectangle of the coordinates.
NextGeometry ==
    \E point \in GeoPoints, rect \in GeoRectangles : InRangeCall(point, rect)

SpecGeometry == Init /\ [][NextGeometry]_vars

\* Any store of at most MaxFeatures features along the routes may have been
\* loaded.
InitRecord ==
    /\ \E features \in SeqsUpTo(RouteFeatures, MaxFeatures) : newServer(features)
    /\ InitCalls
    /\ InitNoRpc
    /\ InitNoRecord
    /\ InitNoGeometry

\* One RecordRoute call of at most MaxPoints points, while time passes.
NextRecord ==
    \/ Tick
    \/ RecordRouteCall
    \/ \E point \in RoutePoints :
          Len(rrRecvd) < MaxPoints /\ RecordRouteRecv(point)
    \/ RecordRouteEOF
    \/ \E err \in {"nil", "SendErr"} : RecordRouteClosed(err)
    \/ RecordRouteRecvErr

SpecRecord == InitRecord /\ [][NextRecord]_vars

\* The point of the equator opposite to p.
Antipode(p) ==
    [Latitude |-> 0, Longitude |-> 2 * QuarterTurn - p.Longitude]

\* The next point of a route that goes to and fro between two antipodes.
NextOfLongRoute ==
    IF rrLastPoint = <<>> THEN [Latitude |-> 0, Longitude |-> 0]
    ELSE Antipode(rrLastPoint[1])

\* One RecordRoute call of at most LongRoute points; the clock stands still.
NextLongRoute ==
    \/ RecordRouteCall
    \/ \E point \in {NextOfLongRoute} :
          Len(rrRecvd) < LongRoute /\ RecordRouteRecv(point)
    \/ RecordRouteEOF
    \/ \E err \in {"nil", "SendErr"} : RecordRouteClosed(err)
    \/ RecordRouteRecvErr

SpecLongRoute == Init /\ [][NextLongRoute]_vars

\* One RecordRoute call of at most MaxPoints points, each one of the two
\* antipodes off the equator, while time passes.
NextSkewRoute ==
    \/ Tick
    \/ RecordRouteCall
    \/ \E point \in SkewPoints :
          Len(rrRecvd) < MaxPoints /\ RecordRouteRecv(point)
    \/ RecordRouteEOF
    \/ \E err \in {"nil", "SendErr"} : RecordRouteClosed(err)
    \/ RecordRouteRecvErr

SpecSkewRoute == Init /\ [][NextSkewRoute]_vars

(***************************************************************************)
(* Reading the two histories.                                              *)
(***************************************************************************)
\* The steps of the handler between s.mu.Lock() and s.mu.Unlock().
CriticalSection == {"append", "assign", "copy", "unlock"}

\* The notes among the first n appends that went to key k, in append order.
AppendedAt(k, n) ==
    LET at == SelectSeq(SubSeq(appends, 1, n),
                        LAMBDA e : Key(e.note.Location) = k)
    IN  [i \in 1..Len(at) |-> at[i].note]

\* The notes call c has appended, in append order.
AppendedBy(c) ==
    LET by == SelectSeq(appends, LAMBDA e : e.call = c)
    IN  [i \in 1..Len(by) |-> by[i].note]

\* The keys something was appended at.
AppendedKeys == { Key(appends[i].note.Location) : i \in 1..Len(appends) }

\* The position in appends of the j-th append of call c.
PosOf(c, j) ==
    CHOOSE i \in 1..Len(appends) :
        /\ appends[i].call = c
        /\ Cardinality({h \in 1..i : appends[h].call = c}) = j

\* The history at the key of the j-th note of call c at the instant of its append.
HistoryAtAppend(c, j) == AppendedAt(Key(inbound[c][j].Location), PosOf(c, j))

\* The registry holds, at each key, exactly the notes appended there, in order.
RegistryIsLog ==
    /\ DOMAIN routeNotes = AppendedKeys
    /\ \A k \in DOMAIN routeNotes : routeNotes[k] = AppendedAt(k, Len(appends))

\* The notes of call c that are received and not yet stored.
Pending(c) == IF pc[c] \in {"lock", "append", "assign"} THEN 1 ELSE 0

(***************************************************************************)
(* C1: whatever the number of concurrent RouteChat calls and however their *)
(* steps interleave, the registry holds at each key exactly one entry for  *)
(* every note appended at that location, in the order of the appends: no   *)
(* append is lost, none is stored twice.  Every note a call has received   *)
(* and carried past its store is among the appends.                        *)
(***************************************************************************)
C1_NoLostDuplicatedReordered ==
    /\ RegistryIsLog
    /\ \A c \in Calls :
          AppendedBy(c) = SubSeq(inbound[c], 1, Len(inbound[c]) - Pending(c))

\* Both calls have appended at one key, three notes in all, while a call
\* was still sending.
C1_Witness ==
    \E k \in DOMAIN routeNotes :
        /\ Len(routeNotes[k]) = 3
        /\ \A c \in Calls : \E i \in 1..3 : \E j \in 1..Len(inbound[c]) :
              routeNotes[k][i] = inbound[c][j]
        /\ { appends[i].call : i \in 1..Len(appends) } = Calls
        /\ \E c \in Calls : pc[c] = "send"

(***************************************************************************)
(* C2: appends to one key are linearized: of the snapshots returned to any *)
(* two appends at the same key, the earlier is a strict prefix of the      *)
(* later; so a call whose note N3 is appended after N1 and N2 at that      *)
(* location gets N1, N2, N3 in that order.  Each snapshot ends with the    *)
(* note just appended.                                                     *)
(***************************************************************************)
C2_SnapshotsLinearized ==
    /\ \A i, j \in 1..Len(snapshots) :
          (i < j /\ snapshots[i].key = snapshots[j].key)
              => IsStrictPrefix(snapshots[i].rn, snapshots[j].rn)
    /\ \A i \in 1..Len(snapshots) :
          /\ Len(snapshots[i].rn) >= 1
          /\ \E j \in 1..Len(inbound[snapshots[i].call]) :
                snapshots[i].rn[Len(snapshots[i].rn)] = inbound[snapshots[i].call][j]

\* One call appended N1 and N2 at a location, the other then N3: its
\* snapshot is N1, N2, N3.
C2_Witness ==
    \E c, d \in Calls :
        /\ c # d
        /\ Len(inbound[c]) = 2
        /\ Len(inbound[d]) = 1
        /\ inbound[c][1].Message # inbound[c][2].Message
        /\ Len(snapshots) = 3
        /\ snapshots[3].call = d
        /\ snapshots[3].rn = <<inbound[c][1], inbound[c][2], inbound[d][1]>>

(***************************************************************************)
(* C3: for a call no send of which has failed, what it has sent is, for    *)
(* each note it received and in the order received, the full history at    *)
(* that note's key at the instant of the append, ending with the note      *)
(* itself; appends other calls make while the call is sending change       *)
(* nothing of it.  One call alone sending N1 then N2 to a location gets    *)
(* [N1] and then [N1, N2].                                                 *)
(***************************************************************************)
\* Replies 1..n in full, then the first m notes of reply n + 1.
Replies(c, n, m) ==
    LET RECURSIVE Cat(_)
        Cat(j) == IF j = 0 THEN <<>> ELSE Cat(j - 1) \o HistoryAtAppend(c, j)
    IN  Cat(n) \o (IF m = 0 THEN <<>>
                   ELSE SubSeq(HistoryAtAppend(c, n + 1), 1, m))

C3_ReplyIsHistoryAtAppend ==
    \A c \in Calls :
        /\ (pc[c] = "recv" \/ (pc[c] = "done" /\ ret[c] # "SendErr"))
              => outbound[c] = Replies(c, Len(inbound[c]), 0)
        /\ pc[c] \in {"lock", "append", "assign", "copy", "unlock"}
              => outbound[c] = Replies(c, Len(inbound[c]) - 1, 0)
        /\ pc[c] = "send"
              => /\ outbound[c] = Replies(c, Len(inbound[c]) - 1, idx[c] - 1)
                 /\ rn[c] = HistoryAtAppend(c, Len(inbound[c]))
                 /\ rn[c][Len(rn[c])] = In(c)
        /\ ( /\ pc[c] = "recv"
             /\ Len(inbound[c]) = 2
             /\ inbound[c][1].Location = inbound[c][2].Location
             /\ \A d \in Calls \ {c} : inbound[d] = <<>> )
              => outbound[c] = <<inbound[c][1], inbound[c][1], inbound[c][2]>>

\* A call is part-way through sending a two-note history while the other
\* call has already appended a third note at the same key.
C3_Witness ==
    \E c, d \in Calls :
        /\ c # d
        /\ pc[c] = "send"
        /\ Len(rn[c]) = 2
        /\ idx[c] = 2
        /\ key[d] = key[c]
        /\ Len(routeNotes[key[c]]) = 3
        /\ pc[d] = "recv"
        /\ Len(outbound[d]) = 3

(***************************************************************************)
(* C4: a handler that is executing, or blocked in, a stream Send does not  *)
(* hold the registry lock; so a call stalled on a slow receiver does not   *)
(* keep another call from taking the lock for its append.                  *)
(***************************************************************************)
C4_NoLockWhileSending ==
    \A c \in Calls :
        pc[c] = "send" =>
            /\ mu # c
            /\ \A d \in Calls \ {c} :
                  pc[d] = "lock" => (ENABLED Lock(d) \/ mu \in Calls \ {c, d})

\* One call is in its send loop while the other holds the lock and appends.
C4_Witness ==
    \E c, d \in Calls :
        /\ c # d
        /\ pc[c] = "send"
        /\ idx[c] <= Len(rn[c])
        /\ pc[d] = "assign"
        /\ mu = d

(***************************************************************************)
(* C5 as stated: a call appending at key K1 never has to wait because a    *)
(* call appending at a different key K2 holds a lock.                      *)
(***************************************************************************)
C5_NoWaitAcrossKeys ==
    \A c, d \in Calls :
        ~ ( /\ c # d
            /\ pc[c] = "lock"
            /\ pc[d] \in CriticalSection
            /\ mu = d
            /\ key[c] # key[d]
            /\ ~ ENABLED Lock(c) )

(***************************************************************************)
(* C5 amended: all keys share the one mutex, so a call appending at K1 can *)
(* wait for a call appending at another key K2, but only while that call   *)
(* is inside its critical section (append, store, copy, unlock), which     *)
(* holds no stream operation; it never waits for a call that is receiving, *)
(* sending or has returned.                                                *)
(***************************************************************************)
C5_WaitOnlyForCriticalSection ==
    \A c \in Calls :
        (pc[c] = "lock" /\ ~ ENABLED Lock(c)) =>
            /\ mu \in Calls \ {c}
            /\ pc[mu] \in CriticalSection

\* A call bound for one key waits at the lock while a call appending at a
\* different key holds it.
C5_Witness ==
    \E c, d \in Calls :
        /\ c # d
        /\ pc[c] = "lock"
        /\ ~ ENABLED Lock(c)
        /\ mu = d
        /\ pc[d] = "copy"
        /\ key[c] # key[d]

(***************************************************************************)
(* C6: the registry starts empty and is append-only: over every step, for  *)
(* every key, the sequence stored before the step is a prefix of the one   *)
(* stored after it, and no key is deleted.                                 *)
(***************************************************************************)
C6_AppendOnly ==
    /\ routeNotes = <<>>
    /\ [][ \A k \in DOMAIN routeNotes :
              /\ k \in DOMAIN routeNotes'
              /\ IsPrefix(routeNotes[k], routeNotes'[k]) ]_vars

\* Two keys are present and one of them holds two notes.
C6_Witness ==
    /\ Cardinality(DOMAIN routeNotes) = 2
    /\ \E k \in DOMAIN routeNotes : Len(routeNotes[k]) = 2

(***************************************************************************)
(* C7: mutual exclusion on the registry: at most one handler is between    *)
(* its lock acquisition and its release, and a handler about to read the   *)
(* map (append, copy) or write it (store) holds the lock.                  *)
(***************************************************************************)
C7_MutualExclusion ==
    /\ Cardinality({ c \in Calls : pc[c] \in CriticalSection }) <= 1
    /\ \A c \in Calls : pc[c] \in CriticalSection => mu = c
    /\ mu # 0 => pc[mu] \in CriticalSection

\* One handler is about to store into the map while the other waits for
\* the lock.
C7_Witness ==
    \E c, d \in Calls :
        /\ c # d
        /\ pc[c] = "assign"
        /\ pc[d] = "lock"

(***************************************************************************)
(* C8: aborting a call, on a Recv error or on a Send error part-way        *)
(* through a snapshot, leaves the registry as it is: the step of the abort *)
(* changes no stored sequence, and after it the registry still holds every *)
(* appended note in its position, the aborted call having stored exactly   *)
(* the notes it received in full.                                          *)
(***************************************************************************)
Aborts(c) == ret[c] = "" /\ ret'[c] \in {"RecvErr", "SendErr"}

C8_AbortKeepsRegistry ==
    [][ \A c \in Calls :
           Aborts(c) => /\ routeNotes' = routeNotes
                        /\ RegistryIsLog'
                        /\ AppendedBy(c)' = inbound'[c]
                        /\ \A j \in 1..Len(inbound'[c]) :
                              \E i \in 1..Len(routeNotes'[Key(inbound'[c][j].Location)]) :
                                 routeNotes'[Key(inbound'[c][j].Location)][i] = inbound'[c][j]
      ]_vars

\* One call failed in Send after the first note of a two-note snapshot, the
\* other failed in Recv after it had appended a note.
C8_Witness ==
    \E c, d \in Calls :
        /\ c # d
        /\ ret[c] = "SendErr"
        /\ Len(rn[c]) = 2
        /\ idx[c] = 2
        /\ ret[d] = "RecvErr"
        /\ Len(inbound[d]) = 1
        /\ Len(routeNotes[key[c]]) >= 2


(***************************************************************************)
(* C9: GetFeature(p) returns no error, for every point and every store;    *)
(* if a loaded feature lies exactly at p it returns the first such feature *)
(* in load order, name included, and otherwise a feature with the empty    *)
(* name and the location p.                                                *)
(***************************************************************************)
\* The places in the store of the features whose location is p.
FeaturesAt(p) ==
    { i \in 1..Len(knownFeatures) :
         /\ knownFeatures[i].Location.Latitude = p.Latitude
         /\ knownFeatures[i].Location.Longitude = p.Longitude }

C9_GetFeatureFirstMatchOrUnnamed ==
    rpc = "GetFeature" =>
        /\ gfReply.err = "nil"
        /\ FeaturesAt(gfPoint) # {} =>
              \E i \in FeaturesAt(gfPoint) :
                  /\ \A j \in FeaturesAt(gfPoint) : i <= j
                  /\ gfReply.feature = knownFeatures[i]
        /\ FeaturesAt(gfPoint) = {} =>
              /\ gfReply.feature.Name = ""
              /\ gfReply.feature.Location = gfPoint

\* Two features of different names are loaded at the point asked for.
C9_Witness ==
    /\ rpc = "GetFeature"
    /\ FeaturesAt(gfPoint) = {1, 2}
    /\ knownFeatures[1].Name # knownFeatures[2].Name
    /\ gfReply.feature.Name = "A"

(***************************************************************************)
(* C10: as long as no send fails, what ListFeatures(rect) has sent is the  *)
(* features it has passed whose location lies in rect, in load order, each *)
(* once; when it has returned nil that is every such feature of the store. *)
(* A rectangle over the whole coordinate space yields the whole store, a   *)
(* rectangle that matches nothing yields no message, and the loop once     *)
(* over, the call returns nil.                                             *)
(***************************************************************************)
\* p lies between the corners of rect, edges included.
LiesIn(p, rect) ==
    /\ \/ rect.Lo.Latitude <= p.Latitude /\ p.Latitude <= rect.Hi.Latitude
       \/ rect.Hi.Latitude <= p.Latitude /\ p.Latitude <= rect.Lo.Latitude
    /\ \/ rect.Lo.Longitude <= p.Longitude /\ p.Longitude <= rect.Hi.Longitude
       \/ rect.Hi.Longitude <= p.Longitude /\ p.Longitude <= rect.Lo.Longitude

\* The features among the first n of the store that lie in rect.
Matching(n, rect) ==
    SelectSeq(SubSeq(knownFeatures, 1, n), LAMBDA f : LiesIn(f.Location, rect))

CoversAll(rect) == \A p \in Points : LiesIn(p, rect)

C10_ListFeaturesInOrder ==
    rpc = "ListFeatures" =>
        /\ lfRet = "" => lfOut = Matching(lfIdx - 1, lfRect)
        /\ lfRet = "nil" =>
              /\ lfOut = Matching(Len(knownFeatures), lfRect)
              /\ CoversAll(lfRect) => lfOut = knownFeatures
              /\ (\A i \in 1..Len(knownFeatures) :
                     ~ LiesIn(knownFeatures[i].Location, lfRect)) => lfOut = <<>>
        /\ (lfRet = "" /\ lfIdx > Len(knownFeatures)) => ENABLED ListFeaturesReturn

\* The call returned nil having sent the second of two features and not the
\* first, for a rectangle given with its corners the other way round.
C10_Witness ==
    /\ rpc = "ListFeatures"
    /\ lfRet = "nil"
    /\ Len(knownFeatures) = 2
    /\ lfOut = <<knownFeatures[2]>>
    /\ lfRect.Lo.Latitude > lfRect.Hi.Latitude

(***************************************************************************)
(* Reading a RecordRoute call.                                             *)
(***************************************************************************)
\* A natural number of any size, as millions and a rest below a million.
Big(n) == [millions |-> n \div 1000000, rest |-> n % 1000000]

\* x + y for two such numbers.
BigPlus(x, y) ==
    [millions |-> x.millions + y.millions + ((x.rest + y.rest) \div 1000000),
     rest     |-> (x.rest + y.rest) % 1000000]

\* The meters between two points of the routes: the one value calcDistance
\* has where its distance is a number.
Meters(p1, p2) == CHOOSE d \in DistanceOf(p1, p2) : DistanceOf(p1, p2) = {d}

\* The sum of the distances between the consecutive points of a route (the
\* legs from..to of it are summed by halves).
PathLength(route) ==
    LET RECURSIVE Sum(_, _)
        Sum(from, to) ==
            IF from > to THEN Big(0)
            ELSE IF from = to
                 THEN Big(Meters(route[from], route[from + 1]))
                 ELSE LET mid == (from + to) \div 2
                      IN  BigPlus(Sum(from, mid), Sum(mid + 1, to))
    IN  Sum(1, Len(route) - 1)

\* The int32 d is the natural number x.
IsNumber(d, x) == d >= 0 /\ Big(d) = x

\* The number of loaded features that lie exactly at p.
LoadedAt(p) ==
    Cardinality({ j \in 1..Len(knownFeatures) :
                     /\ knownFeatures[j].Location.Latitude = p.Latitude
                     /\ knownFeatures[j].Location.Longitude = p.Longitude })

\* The features met along a route, a point counting each time it is received.
FeaturesAlong(route) ==
    LET RECURSIVE Sum(_)
        Sum(i) == IF i = 0 THEN 0 ELSE Sum(i - 1) + LoadedAt(route[i])
    IN  Sum(Len(route))

(***************************************************************************)
(* C11: the summary of a RecordRoute call has point_count equal to the     *)
(* number of points received and distance_meters equal to the sum of the   *)
(* distances between consecutive received points, the first point adding   *)
(* nothing: no point gives 0, 0, 0 and the points [A, B] give 2 and        *)
(* calcDistance(A, B).  The running counters agree with it at every pass.  *)
(***************************************************************************)
C11_SummaryCountsAndDistance ==
    /\ rrPc = "recv" =>
          /\ rrPointCount = Len(rrRecvd)
          /\ IsNumber(rrDistance, PathLength(rrRecvd))
    /\ \A i \in 1..Len(rrSent) :
          /\ rrSent[i].PointCount = Len(rrRecvd)
          /\ IsNumber(rrSent[i].Distance, PathLength(rrRecvd))
          /\ rrRecvd = <<>> =>
                /\ rrSent[i].PointCount = 0
                /\ rrSent[i].Distance = 0
                /\ rrSent[i].FeatureCount = 0
          /\ Len(rrRecvd) = 2 =>
                /\ rrSent[i].PointCount = 2
                /\ rrSent[i].Distance = Meters(rrRecvd[1], rrRecvd[2])

\* A summary was sent for a route of three points: half a turn, then a
\* quarter turn back.
C11_Witness ==
    /\ rrSent # <<>>
    /\ Len(rrRecvd) = 3
    /\ rrSent[1].PointCount = 3
    /\ rrSent[1].Distance = 20015086 + 10007543
    /\ Meters(rrRecvd[1], rrRecvd[2]) = 20015086

(***************************************************************************)
(* C12: the feature_count of the summary is the sum, over every received   *)
(* point (a repeated point counting again each time), of the number of     *)
(* loaded features whose location is exactly that point.                   *)
(***************************************************************************)
C12_FeatureCountPerVisit ==
    /\ rrPc = "recv" => rrFeatureCount = FeaturesAlong(rrRecvd)
    /\ \A i \in 1..Len(rrSent) : rrSent[i].FeatureCount = FeaturesAlong(rrRecvd)

\* Two features lie at one point, which the route visits twice, along with a
\* point that has none: the count is four.
C12_Witness ==
    /\ rrSent # <<>>
    /\ Len(rrRecvd) = 3
    /\ rrRecvd[1] = rrRecvd[3]
    /\ rrRecvd[1] # rrRecvd[2]
    /\ LoadedAt(rrRecvd[1]) = 2
    /\ rrSent[1].FeatureCount = 4

(***************************************************************************)
(* C13: every field of the summary a RecordRoute call returns is           *)
(* non-negative, whatever the length and the content of the route, the     *)
(* counters and the distance being 32-bit signed integers.                 *)
(***************************************************************************)
C13_SummaryNonNegative ==
    \A i \in 1..Len(rrSent) :
        /\ rrSent[i].PointCount >= 0
        /\ rrSent[i].FeatureCount >= 0
        /\ rrSent[i].Distance >= 0
        /\ rrSent[i].ElapsedTime >= 0

(***************************************************************************)
(* C14: a RecordRoute call hands over a summary at most once, and only on  *)
(* end-of-stream, with every received point accumulated in it; a call      *)
(* that reached end-of-stream has handed over exactly one, and it returns  *)
(* what SendAndClose returns; when Recv fails the call returns the error   *)
(* and no summary is sent, neither before the error nor after it.          *)
(***************************************************************************)
C14_SummaryOnceOnEOF ==
    /\ [] ( /\ Len(rrSent) <= 1
            /\ rrSent # <<>> =>
                  /\ rrPc \in {"close", "done"}
                  /\ rrRet \in {"", "nil", "SendErr"}
                  /\ rrSent[1].PointCount = Len(rrRecvd)
            /\ rrPc = "close" => (rrRet = "" /\ Len(rrSent) = 1)
            /\ (rrPc = "done" /\ rrRet \in {"nil", "SendErr"}) => Len(rrSent) = 1
            /\ rrPc = "done" => rrRet \in {"nil", "SendErr", "RecvErr"}
            /\ rrRet = "RecvErr" => (rrPc = "done" /\ rrSent = <<>>)
            /\ rrPc \in {"idle", "recv"} => (rrRet = "" /\ rrSent = <<>>)
            /\ rrPc = "idle" => rrRecvd = <<>> )
    /\ [][ /\ rrPc = "done" =>
                  (rrSent' = rrSent /\ rrRet' = rrRet /\ rrPc' = "done")
           /\ rrPc = "close" =>
                  (rrSent' = rrSent /\ rrRecvd' = rrRecvd
                   /\ rrPc' \in {"close", "done"})
           /\ rrSent' # rrSent => (rrPc = "recv" /\ rrPc' = "close")
         ]_vars

\* Recv failed after two points had been accumulated: nothing was sent.
C14_Witness ==
    /\ rrRet = "RecvErr"
    /\ Len(rrRecvd) = 2
    /\ rrPointCount = 2
    /\ rrSent = <<>>

(***************************************************************************)
(* C18 as stated: elapsed_seconds is the whole seconds between the first   *)
(* receive of the call and the end-of-stream; the time between the start   *)
(* of the handler and the first receive is not counted.                    *)
(***************************************************************************)
C18_ElapsedFromFirstReceive ==
    \A i \in 1..Len(rrSent) :
        rrFirstRecv >= 0 =>
            /\ rrSent[i].ElapsedTime * TicksPerSecond <= rrEndTime - rrFirstRecv
            /\ rrEndTime - rrFirstRecv
                  < (rrSent[i].ElapsedTime + 1) * TicksPerSecond

(***************************************************************************)
(* C18 amended: elapsed_seconds is the truncated whole number of seconds   *)
(* between the start of the handler, before its first receive, and the     *)
(* end-of-stream; the time the handler waits for its first point is        *)
(* counted.                                                                *)
(***************************************************************************)
C18_ElapsedFromHandlerStart ==
    \A i \in 1..Len(rrSent) :
        /\ rrEntered >= 0
        /\ rrEndTime >= rrEntered
        /\ rrEndTime <= now
        /\ rrSent[i].ElapsedTime * TicksPerSecond <= rrEndTime - rrEntered
        /\ rrEndTime - rrEntered < (rrSent[i].ElapsedTime + 1) * TicksPerSecond

\* The first point came a second or more after the handler started and the
\* stream ended less than a second after it: a second or more is reported.
C18_Witness ==
    /\ rrSent # <<>>
    /\ rrFirstRecv - rrEntered >= TicksPerSecond
    /\ rrEndTime - rrFirstRecv < TicksPerSecond
    /\ now > rrEndTime
    /\ rrSent[1].ElapsedTime >= 1

(***************************************************************************)
(* C15: the bounding-box test gives the same result with the two corners   *)
(* of the rectangle swapped, and it is inclusive on all four edges: true   *)
(* exactly when the longitude of the point lies between the smaller and    *)
(* the larger corner longitude and its latitude between the smaller and    *)
(* the larger corner latitude.                                             *)
(***************************************************************************)
\* x lies between a and b, whichever is the smaller, ends included.
Between(x, a, b) == (a <= x /\ x <= b) \/ (b <= x /\ x <= a)

C15_InRangeSymmetricInclusive ==
    irRect # <<>> =>
        /\ irResult = irSwapped
        /\ irResult <=>
              /\ Between(irPoint.Longitude, irRect.Lo.Longitude, irRect.Hi.Longitude)
              /\ Between(irPoint.Latitude, irRect.Lo.Latitude, irRect.Hi.Latitude)

\* A point on the edge of a rectangle whose Lo corner is the upper right one
\* is found in range.
C15_Witness ==
    /\ irRect # <<>>
    /\ irRect.Lo.Latitude > irRect.Hi.Latitude
    /\ irRect.Lo.Longitude > irRect.Hi.Longitude
    /\ irPoint.Latitude = irRect.Lo.Latitude
    /\ irPoint.Longitude < irRect.Lo.Longitude
    /\ irPoint.Longitude > irRect.Hi.Longitude
    /\ irResult

(***************************************************************************)
(* C16: when a Send fails in ListFeatures the call returns the error at    *)
(* once: what was sent before is a strict prefix of the features in rect   *)
(* in load order, the feature whose send failed is the next of them and is *)
(* not sent again, and no later feature is sent: the handler takes no      *)
(* further step.                                                           *)
(***************************************************************************)
C16_SendFailureAborts ==
    (rpc = "ListFeatures" /\ lfRet = "SendErr") =>
        /\ lfIdx \in 1..Len(knownFeatures)
        /\ lfOut = Matching(lfIdx - 1, lfRect)
        /\ IsStrictPrefix(lfOut, Matching(Len(knownFeatures), lfRect))
        /\ Matching(Len(knownFeatures), lfRect)[Len(lfOut) + 1] = knownFeatures[lfIdx]
        /\ ~ ENABLED ListFeaturesSkip
        /\ ~ ENABLED ListFeaturesSendOk
        /\ ~ ENABLED ListFeaturesSendFail
        /\ ~ ENABLED ListFeaturesReturn

\* The send of the second of two features in rect failed after the first
\* had been sent.
C16_Witness ==
    /\ rpc = "ListFeatures"
    /\ lfRet = "SendErr"
    /\ lfIdx = 2
    /\ Len(lfOut) = 1
    /\ Len(Matching(Len(knownFeatures), lfRect)) = 2

(***************************************************************************)
(* C17: within a call the replies follow the order of the requests, the    *)
(* whole snapshot for a note being sent before the next note is received;  *)
(* under fair scheduling a handler that has received a note gets back to   *)
(* stream.Recv unless a send fails, every call returns in the end, and a   *)
(* call that returned nil on end-of-stream has replied to every note it    *)
(* received.                                                               *)
(***************************************************************************)
C17_RepliesInOrderAndReturn ==
    /\ [][ \A c \in Calls :
              Len(inbound'[c]) > Len(inbound[c])
                  => outbound[c] = Replies(c, Len(inbound[c]), 0) ]_vars
    /\ \A c \in Calls :
          (pc[c] \in {"lock", "append", "assign", "copy", "unlock", "send"})
              ~> (pc[c] = "recv" \/ ret[c] = "SendErr")
    /\ \A c \in Calls : <>(pc[c] = "done")
    /\ \A c \in Calls :
          [](ret[c] = "nil" =>
                /\ pc[c] = "done"
                /\ outbound[c] = Replies(c, Len(inbound[c]), 0))

\* A call returned nil having replied to two notes at one location while
\* the other call had left a note there in between.
C17_Witness ==
    \E c, d \in Calls :
        /\ c # d
        /\ ret[c] = "nil"
        /\ Len(inbound[c]) = 2
        /\ Len(inbound[d]) = 1
        /\ Len(outbound[c]) = 4
        /\ outbound[c] = <<inbound[c][1], inbound[c][1], inbound[d][1],
                           inbound[c][2]>>

(***************************************************************************)
(* C19: notes are keyed by their exact coordinates: two notes share a key  *)
(* exactly when their latitudes and their longitudes are equal, so a       *)
(* snapshot, and every message sent in reply to a note, has the location   *)
(* of that note, and a note left at one point is in no history of another. *)
(***************************************************************************)
SameCoordinates(p, q) ==
    p.Latitude = q.Latitude /\ p.Longitude = q.Longitude

C19_KeyedByExactCoordinates ==
    /\ \A c, d \in Calls :
          \A i \in 1..Len(inbound[c]) : \A j \in 1..Len(inbound[d]) :
              (Key(inbound[c][i].Location) = Key(inbound[d][j].Location))
                  <=> SameCoordinates(inbound[c][i].Location,
                                      inbound[d][j].Location)
    /\ \A k1, k2 \in DOMAIN routeNotes :
          \A i \in 1..Len(routeNotes[k1]) : \A j \in 1..Len(routeNotes[k2]) :
              SameCoordinates(routeNotes[k1][i].Location,
                              routeNotes[k2][j].Location) <=> (k1 = k2)
    /\ \A n \in 1..Len(snapshots) :
          \A i \in 1..Len(snapshots[n].rn) :
              SameCoordinates(snapshots[n].rn[i].Location,
                              snapshots[n].rn[Len(snapshots[n].rn)].Location)
    /\ \A c \in Calls :
          pc[c] = "send" =>
              /\ \A i \in 1..Len(rn[c]) :
                    SameCoordinates(rn[c][i].Location, In(c).Location)
              /\ \A i \in 1..(idx[c] - 1) :
                    SameCoordinates(
                        outbound[c][Len(outbound[c]) - (idx[c] - 1) + i].Location,
                        In(c).Location)

\* Notes were left at both points, whose keys "1 11" and "11 1" hold the
\* same digits, and a call is sending the two notes of one of them.
C19_Witness ==
    /\ DOMAIN routeNotes = {"1 11", "11 1"}
    /\ \E c \in Calls :
          /\ pc[c] = "send"
          /\ Len(rn[c]) = 2
          /\ idx[c] = 2

(***************************************************************************)
(* C20: the registry lock is released on every path: a handler that has    *)
(* returned, on end-of-stream, on a Recv error or on a Send error, does    *)
(* not hold the lock, so a call that waits for the lock waits for a call   *)
(* that is inside its critical section and can take its next step.         *)
(***************************************************************************)
C20_LockReleasedOnReturn ==
    /\ \A c \in Calls : pc[c] = "done" => mu # c
    /\ mu # 0 => ret[mu] = ""
    /\ \A c \in Calls :
          pc[c] = "lock" =>
              \/ ENABLED Lock(c)
              \/ /\ mu \in Calls \ {c}
                 /\ ENABLED (AppendNote(mu) \/ AssignNotes(mu)
                                \/ CopyNotes(mu) \/ Unlock(mu))

\* A call has returned on a Send error and the other call, which has
\* received its note since, holds the lock.
C20_Witness ==
    \E c, d \in Calls :
        /\ c # d
        /\ ret[c] = "SendErr"
        /\ Len(inbound[c]) = 2
        /\ pc[d] = "assign"
        /\ mu = d

=============================================================================
